---- MODULE Spec2Model ----
\* A model of the projector API: the upstream cache-and-fetch service
\* (ctaapiService.js) and the file-backed profile store with its HTTP
\* handlers (server.js).
EXTENDS Integers, Sequences, FiniteSets, TLC

VARIABLES
  cache,        \* CTAAPIService.cache: SourceKind -> entry {data, timestamp} or absent
  cacheWriter,  \* history: the fetchWithCache call whose completion wrote cache[k] (0: none)
  now,          \* Date.now(), in milliseconds
  ticks,        \* history: number of clock advances so far
  clears,       \* history: number of clearCache() calls so far
  calls,        \* the fetchWithCache invocations, in the order they were started
  aggs,         \* the getAllCardData invocations, in the order they were started
  fs,           \* the data directory: file name -> inode number (0: no such file)
  inodes,       \* the content of each inode
  reqs,         \* the HTTP requests of the profile store, in the order they arrived
  payload,      \* the raw payload handed to a transformer
  applied,      \* the transformer that was applied to it ("none": not yet)
  card          \* what the transformer returned, or Thrown

cacheVars == <<cache, cacheWriter, now, ticks, clears, calls, aggs>>

storeVars == <<fs, inodes, reqs>>

cardVars == <<payload, applied, card>>

vars == <<cache, cacheWriter, now, ticks, clears, calls, aggs, fs, inodes, reqs,
          payload, applied, card>>

-----------------------------------------------------------------------------
\* Bounds of the model.

MaxCalls == 2
MaxAggs == 1
MaxClears == 1
MaxTicks == 1
MaxReqs == 3
MaxLen == 7

-----------------------------------------------------------------------------
\* Program constants.

cacheTimeout == 300000

requestTimeout == 10000

SliceEnd == 5

\* The clock advances by just under the TTL or by the TTL, so that an entry
\* is observed at age TTL-1 (fresh) and at age TTL (stale).
TickSteps == {cacheTimeout - 1, cacheTimeout}

Kinds == {"transit", "events", "tasks"}

KindOrder == <<"transit", "events", "tasks">>

-----------------------------------------------------------------------------
\* JavaScript values, as far as JSON.parse can produce them (plus undefined,
\* the value of a missing property).

JNull == [t |-> "null"]

JUndef == [t |-> "undefined"]

JBool(b) == [t |-> "bool", b |-> b]

JNum(n) == [t |-> "num", n |-> n]

JStr(s) == [t |-> "str", s |-> s]

JArr(a) == [t |-> "array", a |-> a]

JObj(o) == [t |-> "object", o |-> o]

\* ToBoolean: what `!x` and `x || y` test.
Truthy(v) ==
  CASE v.t = "null" -> FALSE
    [] v.t = "undefined" -> FALSE
    [] v.t = "bool" -> v.b
    [] v.t = "num" -> v.n # 0
    [] v.t = "str" -> v.s # ""
    [] OTHER -> TRUE

IsArray(v) == v.t = "array"

\* v.k raises a TypeError exactly when v is null or undefined.
CanRead(v) == v.t \notin {"null", "undefined"}

\* v.k for a v that can be read: the own property of an object, else undefined.
Get(v, k) ==
  IF v.t = "object" /\ k \in DOMAIN v.o THEN v.o[k] ELSE JUndef

\* a || b
Or(a, b) == IF Truthy(a) THEN a ELSE b

Min(a, b) == IF a < b THEN a ELSE b

\* Variant: one element more is kept.
Slice5_Six(a) == SubSeq(a, 1, Min(SliceEnd + 1, Len(a)))

\* a.slice(0, 5)
Slice5(a) == SubSeq(a, 1, Min(SliceEnd, Len(a)))

Thrown == [thrown |-> "TypeError"]

-----------------------------------------------------------------------------
\* The data directory of the profile store (server.js).

ProfileIds == {"p1", "p2"}

ProfilePath(id) == "profile-" \o id \o ".json"

ActivePath == "activeProfile.json"

\* const tempPath = `${filePath}.tmp`
TmpPath(path) == path \o ".tmp"

CardIds == {"c1"}

CardPath(id) == "card-" \o id \o ".json"

DataFiles == {ProfilePath(id) : id \in ProfileIds} \cup {ActivePath} \cup {CardPath(id) : id \in CardIds}

Paths == DataFiles \cup {TmpPath(f) : f \in DataFiles}

\* The content of a file that was created or truncated and not written yet.
EmptyText == [empty |-> TRUE]

SyntaxError == [thrown |-> "SyntaxError"]

\* What JSON.stringify keeps of a value: properties whose value is undefined
\* are dropped, undefined array elements become null.
RECURSIVE JsonOf(_)
JsonOf(v) ==
  CASE v.t = "object" ->
         JObj([k \in {x \in DOMAIN v.o : v.o[x] # JUndef} |-> JsonOf(v.o[k])])
    [] v.t = "array" ->
         JArr([i \in 1..Len(v.a) |-> IF v.a[i] = JUndef THEN JNull ELSE JsonOf(v.a[i])])
    [] OTHER -> v

\* Variant: the text lacks the updatedAt property.
Stringify_NoUpdatedAt(v) ==
  [text |-> JObj([k \in DOMAIN JsonOf(v).o \ {"updatedAt"} |-> JsonOf(v).o[k]])]

\* JSON.stringify(data, null, 2)
Stringify(v) == [text |-> JsonOf(v)]

\* JSON.parse(data): the value, or SyntaxError for a text that is not complete
Parse(content) == IF "text" \in DOMAIN content THEN content.text ELSE SyntaxError

\* new Date().toISOString()
IsoTime(t) == JStr(ToString(t))

\* The zones of createDefaultProfile, with the cards left to the schema's
\* default.
ZoneValue(w) == JObj([width |-> JNum(w), height |-> JNum(600), cards |-> JArr(<<>>)])

ZonesValue == JObj([left |-> ZoneValue(320), center |-> ZoneValue(800), right |-> ZoneValue(280)])

\* Request bodies of PUT /display/profiles/:id: two profiles, the second one
\* carrying an id of its own, and a body without the required name.
ProfileBodyA == JObj([name |-> JStr("A"), zones |-> ZonesValue])

ProfileBodyB == JObj([id |-> JStr("other"), name |-> JStr("B"), zones |-> ZonesValue])

ProfileBodyNoName == JObj([zones |-> ZonesValue])

ProfileBodies == {ProfileBodyA, ProfileBodyB, ProfileBodyNoName}

\* validation.profile.validate(body) has no error: the required name is a
\* non-empty string and the required zones are present.
ValidProfile(body) ==
  /\ body.t = "object"
  /\ "name" \in DOMAIN body.o /\ body.o["name"].t = "str" /\ body.o["name"].s # ""
  /\ "zones" \in DOMAIN body.o /\ body.o["zones"].t = "object"

\* Variant: every body passes.
ValidCard_Any(body) == TRUE

\* Request bodies of PUT /display/cards/:id: a card, and a body without the
\* required type.
CardBody == JObj([type |-> JStr("text"), config |-> JObj([content |-> JStr("hello")])])

CardBodyNoType == JObj([config |-> JObj([content |-> JStr("hello")])])

CardBodies == {CardBody, CardBodyNoType}

\* validation.card.validate(body) has no error: the required type is a
\* non-empty string and the required config is an object.
ValidCard(body) ==
  /\ body.t = "object"
  /\ "type" \in DOMAIN body.o /\ body.o["type"].t = "str" /\ body.o["type"].s # ""
  /\ "config" \in DOMAIN body.o /\ body.o["config"].t = "object"

\* Request bodies of PUT /display/activeProfile.
ActiveBodies == {JObj([profileId |-> JStr(id)]) : id \in ProfileIds} \cup {JObj([profileId |-> JNum(1)])}

\* validation.activeProfile.validate(body) has no error
ValidActive(body) ==
  /\ body.t = "object"
  /\ DOMAIN body.o = {"profileId"}
  /\ body.o["profileId"].t = "str" /\ body.o["profileId"].s # ""

\* {...value, id: req.params.id, updatedAt: new Date().toISOString()}
MakeProfile(value, id, t) ==
  JObj([k \in DOMAIN value.o \cup {"id", "updatedAt"} |->
          IF k = "id" THEN JStr(id) ELSE IF k = "updatedAt" THEN IsoTime(t) ELSE value.o[k]])

\* {profileId: value.profileId, updatedAt: new Date().toISOString()}
MakeActive(value, t) == JObj([profileId |-> value.o["profileId"], updatedAt |-> IsoTime(t)])

\* {...a, profile}
WithProfile(a, profile) ==
  JObj([k \in DOMAIN a.o \cup {"profile"} |-> IF k = "profile" THEN profile ELSE a.o[k]])

ErrorBody(msg) == JObj([error |-> JStr(msg)])

NoFiles == [p \in Paths |-> 0]

-----------------------------------------------------------------------------
\* The transformers. Each returns the card object, or Thrown when the
\* JavaScript raises a TypeError.

TransitItem(stop) ==
  [route |-> Or(Get(stop, "route"), JStr("Unknown Route")),
   destination |-> Or(Get(stop, "destination"), JStr("Unknown Destination")),
   arrivalTime |-> Or(Or(Get(stop, "arrival_time"), Get(stop, "arrivalTime")), JStr("TBD")),
   minutes |-> Or(Or(Get(stop, "minutes_away"), Get(stop, "minutesAway")), JStr("N/A"))]

transformTransitData(data, t) ==
  IF ~Truthy(data) \/ ~IsArray(data)
  THEN [title |-> "CTA Transit", content |-> "Transit data unavailable", items |-> <<>>]
  ELSE LET src == Slice5(data.a) IN
       IF \E i \in 1..Len(src) : ~CanRead(src[i])
       THEN Thrown
       ELSE LET items == [i \in 1..Len(src) |-> TransitItem(src[i])] IN
            [title |-> "CTA Transit",
             subtitle |-> "Next " \o ToString(Len(items)) \o " arrivals",
             items |-> items,
             lastUpdated |-> t]

EventItem(event) ==
  [title |-> Or(Or(Get(event, "title"), Get(event, "summary")), JStr("Untitled Event")),
   time |-> Or(Or(Or(Get(event, "start_time"), Get(event, "startTime")), Get(event, "start")), JStr("TBD")),
   description |-> Or(Get(event, "description"), JStr("")),
   location |-> Or(Get(event, "location"), JStr(""))]

transformEventsData(data, t) ==
  IF ~Truthy(data) \/ ~IsArray(data)
  THEN [title |-> "Calendar Events", content |-> "No events available", items |-> <<>>]
  ELSE LET src == Slice5(data.a) IN
       IF \E i \in 1..Len(src) : ~CanRead(src[i])
       THEN Thrown
       ELSE LET items == [i \in 1..Len(src) |-> EventItem(src[i])] IN
            [title |-> "Upcoming Events",
             subtitle |-> ToString(Len(items)) \o " events today",
             items |-> items,
             lastUpdated |-> t]

TaskItem(task) ==
  [title |-> Or(Or(Get(task, "text"), Get(task, "title")), JStr("Untitled Task")),
   type |-> Or(Get(task, "type"), JStr("todo")),
   priority |-> Or(Get(task, "priority"), JStr("normal")),
   completed |-> Or(Get(task, "completed"), JBool(FALSE)),
   difficulty |-> Or(Get(task, "difficulty"), JNum(1))]

transformTasksData(data, t) ==
  IF ~Truthy(data)
  THEN [title |-> "Habitica Tasks", content |-> "Tasks unavailable", items |-> <<>>]
  ELSE LET tasks == IF IsArray(data) THEN data ELSE Or(Get(data, "tasks"), JArr(<<>>)) IN
       \* tasks.slice(0, 5).map(...) needs an array: a string has slice but
       \* its result has no map, any other value has no slice
       IF ~IsArray(tasks)
       THEN Thrown
       ELSE LET src == Slice5(tasks.a) IN
            IF \E i \in 1..Len(src) : ~CanRead(src[i])
            THEN Thrown
            ELSE LET items == [i \in 1..Len(src) |-> TaskItem(src[i])]
                     completedCount == Cardinality({i \in 1..Len(items) : Truthy(items[i].completed)})
                 IN [title |-> "Habitica Tasks",
                     subtitle |-> ToString(completedCount) \o "/" \o ToString(Len(items)) \o " completed",
                     items |-> items,
                     lastUpdated |-> t]

Transform(k, data, t) ==
  CASE k = "transit" -> transformTransitData(data, t)
    [] k = "events" -> transformEventsData(data, t)
    [] k = "tasks" -> transformTasksData(data, t)

-----------------------------------------------------------------------------
\* The bodies the upstream answers with: the mock's transit payload and an
\* array holding a null item.

TransitBody ==
  JArr(<<JObj([route |-> JStr("Red Line"), destination |-> JStr("Howard"),
               arrival_time |-> JStr("2:15 PM"), minutes_away |-> JNum(5)])>>)

NullItemBody == JArr(<<JNull>>)

Bodies == {TransitBody, NullItemBody}

-----------------------------------------------------------------------------
\* The cache-and-fetch service (ctaapiService.js).

NoEntry == [present |-> FALSE]

Entry(d, t) == [present |-> TRUE, data |-> d, timestamp |-> t]

\* Variants of the code below, used to show that the checked properties
\* depend on it: the freshness test with the comparison turned around, and
\* with an inclusive bound.
IsFresh_Inverted(cached, t) == cached.present /\ t - cached.timestamp > cacheTimeout

IsFresh_Inclusive(cached, t) == cached.present /\ t - cached.timestamp <= cacheTimeout

\* cached && Date.now() - cached.timestamp < this.cacheTimeout
IsFresh(cached, t) == cached.present /\ t - cached.timestamp < cacheTimeout

NoResult == [none |-> TRUE]

\* history: the calls for key k that have returned
Returned(k) == {i \in 1..Len(calls) : calls[i].key = k /\ calls[i].pc = "done"}

\* Variant: a call that misses while a request for its key is outstanding
\* joins that request instead of issuing its own.
NewCall_Coalesced(k, agg) ==
  LET cached == cache[k]
      base == [key |-> k, agg |-> agg, cached |-> cached, cachedBy |-> cacheWriter[k],
               startedAt |-> now, epoch |-> clears, before |-> Returned(k)]
      joins == \E a \in 1..Len(calls) : calls[a].key = k /\ calls[a].pc = "await"
  IN IF IsFresh(cached, now)
     THEN base @@ [pc |-> "done", outcome |-> "hit", reqs |-> 0, result |-> cached.data,
                   doneAt |-> now, doneEpoch |-> clears]
     ELSE base @@ [pc |-> "await", outcome |-> "pending", reqs |-> IF joins THEN 0 ELSE 1,
                   result |-> JUndef, doneAt |-> -1, doneEpoch |-> -1]

\* The synchronous part of fetchWithCache(endpoint, k): the cache check, and
\* on a miss the upstream request, issued before the call first suspends.
\* agg is the getAllCardData invocation that made the call (0: a direct
\* getTransitData/getEventsData/getTasksData call).
NewCall(k, agg) ==
  LET cached == cache[k]
      base == [key |-> k, agg |-> agg, cached |-> cached, cachedBy |-> cacheWriter[k],
               startedAt |-> now, epoch |-> clears, before |-> Returned(k)]
  IN IF IsFresh(cached, now)
     THEN base @@ [pc |-> "done", outcome |-> "hit", reqs |-> 0, result |-> cached.data,
                   doneAt |-> now, doneEpoch |-> clears]
     ELSE base @@ [pc |-> "await", outcome |-> "pending", reqs |-> 1, result |-> JUndef,
                   doneAt |-> -1, doneEpoch |-> -1]

\* Variant: the continuation runs as soon as one of the three fetches has
\* settled.
AggSettle_Race(cs, ags, t) ==
  [a \in DOMAIN ags |->
     IF ags[a].pc = "await" /\ \E j \in 0..2 : cs[ags[a].first + j].pc = "done"
     THEN LET r == [j \in 1..3 |-> Transform(KindOrder[j], cs[ags[a].first + j - 1].result, t)]
          IN IF \E j \in 1..3 : r[j] = Thrown
             THEN [ags[a] EXCEPT !.pc = "raised"]
             ELSE [ags[a] EXCEPT !.pc = "returned",
                                 !.result = [transit |-> r[1], events |-> r[2], tasks |-> r[3]]]
     ELSE ags[a]]

\* The continuation of getAllCardData after Promise.allSettled: every
\* invocation whose three fetches have settled applies the transformers and
\* returns, or raises what a transformer raised.
AggSettle(cs, ags, t) ==
  [a \in DOMAIN ags |->
     IF ags[a].pc = "await" /\ \A j \in 0..2 : cs[ags[a].first + j].pc = "done"
     THEN LET r == [j \in 1..3 |-> Transform(KindOrder[j], cs[ags[a].first + j - 1].result, t)]
          IN IF \E j \in 1..3 : r[j] = Thrown
             THEN [ags[a] EXCEPT !.pc = "raised"]
             ELSE [ags[a] EXCEPT !.pc = "returned",
                                 !.result = [transit |-> r[1], events |-> r[2], tasks |-> r[3]]]
     ELSE ags[a]]

\* getTransitData / getEventsData / getTasksData
GetData(k) ==
  /\ Len(calls) < MaxCalls
  /\ calls' = Append(calls, NewCall(k, 0))
  /\ UNCHANGED <<cache, cacheWriter, now, ticks, clears, aggs, storeVars, cardVars>>

\* getAllCardData: the three fetches start one after the other without
\* suspending in between.
GetAllCardData ==
  /\ Len(aggs) < MaxAggs
  /\ LET a == Len(aggs) + 1
         cs == calls \o [j \in 1..3 |-> NewCall(KindOrder[j], a)]
     IN /\ calls' = cs
        /\ aggs' = AggSettle(cs, Append(aggs, [first |-> Len(calls) + 1, pc |-> "await",
                                                result |-> NoResult]), now)
  /\ UNCHANGED <<cache, cacheWriter, now, ticks, clears, storeVars, cardVars>>

\* Variant: the new payload is merged into an existing entry, whose timestamp
\* is kept.
CacheSet_Merge(k, data, t) ==
  [cache EXCEPT ![k] = IF @.present THEN Entry(data, @.timestamp) ELSE Entry(data, t)]

\* Variant: the payload is stored under every key.
CacheSet_Everywhere(k, data, t) == [x \in Kinds |-> Entry(data, t)]

\* this.cache.set(cacheKey, {data, timestamp: Date.now()})
CacheSet(k, data, t) == [cache EXCEPT ![k] = Entry(data, t)]

\* Variant: a fetch that was started before a clearCache() is cancelled by
\* it, and returns its payload without storing it.
ResponseEnd_Cancelled(c, body) ==
  /\ calls[c].pc = "await"
  /\ cache' = IF calls[c].epoch < clears THEN cache ELSE CacheSet(calls[c].key, body, now)
  /\ cacheWriter' = IF calls[c].epoch < clears THEN cacheWriter
                    ELSE [cacheWriter EXCEPT ![calls[c].key] = c]
  /\ calls' = [calls EXCEPT ![c] = [@ EXCEPT !.pc = "done", !.outcome = "ok", !.result = body,
                                             !.doneAt = now, !.doneEpoch = clears]]
  /\ aggs' = AggSettle(calls', aggs, now)
  /\ UNCHANGED <<now, ticks, clears, storeVars, cardVars>>

\* makeRequest resolves with the parsed body; fetchWithCache stores it and
\* returns it.
ResponseEnd(c, body) ==
  /\ calls[c].pc = "await"
  /\ cache' = CacheSet(calls[c].key, body, now)
  /\ cacheWriter' = [cacheWriter EXCEPT ![calls[c].key] = c]
  /\ calls' = [calls EXCEPT ![c] = [@ EXCEPT !.pc = "done", !.outcome = "ok", !.result = body,
                                             !.doneAt = now, !.doneEpoch = clears]]
  /\ aggs' = AggSettle(calls', aggs, now)
  /\ UNCHANGED <<now, ticks, clears, storeVars, cardVars>>

\* The catch block of fetchWithCache: the value returned after a rejection.
Fallback(cached) == IF cached.present THEN cached.data ELSE JNull

\* makeRequest rejects and fetchWithCache falls back to the entry it read
\* when it started. (The completion time is recorded for successful fetches
\* only: nothing of a failed call outlives its return value.)
FetchFailed(c) ==
  /\ calls[c].pc = "await"
  /\ calls' = [calls EXCEPT ![c] = [@ EXCEPT !.pc = "done", !.outcome = "failed",
                                             !.result = Fallback(calls[c].cached)]]
  /\ aggs' = AggSettle(calls', aggs, now)
  /\ UNCHANGED <<cache, cacheWriter, now, ticks, clears, storeVars, cardVars>>

\* JSON.parse of the body raises
ResponseUnparsable(c) == FetchFailed(c)

\* request.on('error')
RequestError(c) == FetchFailed(c)

\* request.setTimeout(10000): no earlier than 10 s after the request was made
RequestTimeout(c) ==
  /\ now - calls[c].startedAt >= requestTimeout
  /\ FetchFailed(c)

\* Variant: only the transit entry is dropped.
clearCache_TransitOnly ==
  /\ clears < MaxClears
  /\ cache' = [cache EXCEPT !["transit"] = NoEntry]
  /\ cacheWriter' = [cacheWriter EXCEPT !["transit"] = 0]
  /\ clears' = clears + 1
  /\ UNCHANGED <<now, ticks, calls, aggs, storeVars, cardVars>>

clearCache ==
  /\ clears < MaxClears
  /\ cache' = [k \in Kinds |-> NoEntry]
  /\ cacheWriter' = [k \in Kinds |-> 0]
  /\ clears' = clears + 1
  /\ UNCHANGED <<now, ticks, calls, aggs, storeVars, cardVars>>

Tick(d) ==
  /\ ticks < MaxTicks
  /\ now' = now + d
  /\ ticks' = ticks + 1
  /\ UNCHANGED <<cache, cacheWriter, clears, calls, aggs, storeVars, cardVars>>

Init ==
  /\ cache = [k \in Kinds |-> NoEntry]
  /\ cacheWriter = [k \in Kinds |-> 0]
  /\ now = 0
  /\ ticks = 0
  /\ clears = 0
  /\ calls = <<>>
  /\ aggs = <<>>
  /\ fs = NoFiles
  /\ inodes = <<>>
  /\ reqs = <<>>
  /\ payload = JNull
  /\ applied = "none"
  /\ card = NoResult

Next ==
  \/ \E k \in Kinds : GetData(k)
  \/ \E c \in 1..Len(calls), body \in Bodies : ResponseEnd(c, body)
  \/ \E c \in 1..Len(calls) : ResponseUnparsable(c)
  \/ \E c \in 1..Len(calls) : RequestError(c)
  \/ \E c \in 1..Len(calls) : RequestTimeout(c)
  \/ clearCache
  \/ \E d \in TickSteps : Tick(d)

Spec == Init /\ [][Next]_vars

\* The service used through getAllCardData. It starts from the states the
\* direct calls above leave behind: for each kind, either nothing was fetched
\* yet or one fetch has completed and its payload is in the cache.
PriorCall(k) ==
  [key |-> k, agg |-> 0, cached |-> NoEntry, cachedBy |-> 0, startedAt |-> 0, epoch |-> 0,
   before |-> {}, pc |-> "done", outcome |-> "ok", reqs |-> 1, result |-> TransitBody,
   doneAt |-> 0, doneEpoch |-> 0]

RECURSIVE PriorCalls(_, _)
PriorCalls(fetched, j) ==
  IF j > Len(KindOrder) THEN <<>>
  ELSE (IF KindOrder[j] \in fetched THEN <<PriorCall(KindOrder[j])>> ELSE <<>>)
       \o PriorCalls(fetched, j + 1)

InitAll ==
  \E fetched \in SUBSET Kinds :
    /\ calls = PriorCalls(fetched, 1)
    /\ cache = [k \in Kinds |-> IF k \in fetched THEN Entry(TransitBody, 0) ELSE NoEntry]
    /\ cacheWriter = [k \in Kinds |->
                        IF k \in fetched
                        THEN CHOOSE i \in 1..Len(calls) : calls[i].key = k
                        ELSE 0]
    /\ now = 0
    /\ ticks = 0
    /\ clears = 0
    /\ aggs = <<>>
    /\ fs = NoFiles
    /\ inodes = <<>>
    /\ reqs = <<>>
    /\ payload = JNull
    /\ applied = "none"
    /\ card = NoResult

NextAll ==
  \/ GetAllCardData
  \/ \E c \in 1..Len(calls), body \in Bodies : ResponseEnd(c, body)
  \/ \E c \in 1..Len(calls) : ResponseUnparsable(c)
  \/ \E c \in 1..Len(calls) : RequestError(c)
  \/ \E c \in 1..Len(calls) : RequestTimeout(c)
  \/ \E d \in TickSteps : Tick(d)

SpecAll == InitAll /\ [][NextAll]_vars

\* The upstream seen with the status of its responses: the mock answers a
\* known URL with 200 and its data, any other URL with 404 and an error
\* object.
NotFoundBody == JObj([error |-> JStr("Not found")])

Responses == {[statusCode |-> 200, body |-> TransitBody],
              [statusCode |-> 404, body |-> NotFoundBody]}

\* The callback of http.get and its 'end' handler: the body is parsed and
\* the promise resolved with it; response.statusCode is not read.
UpstreamResponse(c, response) == ResponseEnd(c, response.body)

NextUpstream ==
  \/ \E k \in Kinds : GetData(k)
  \/ \E c \in 1..Len(calls), response \in Responses : UpstreamResponse(c, response)
  \/ \E c \in 1..Len(calls) : RequestError(c)
  \/ \E d \in TickSteps : Tick(d)

SpecUpstream == Init /\ [][NextUpstream]_vars

\* An upstream request that is outstanding eventually gets its response, an
\* error or its timeout: http.get settles, and request.setTimeout bounds the
\* wait.
Settle(c) ==
  /\ c \in 1..Len(calls)
  /\ \/ \E body \in Bodies : ResponseEnd(c, body)
     \/ ResponseUnparsable(c)
     \/ RequestError(c)
     \/ RequestTimeout(c)

\* The largest number of fetchWithCache calls of the service used through
\* getAllCardData: the earlier ones and three for each invocation.
MaxAllCalls == Cardinality(Kinds) + 3 * MaxAggs

\* One getAllCardData invocation followed to its end. Whether an invocation
\* completes depends on its own three fetches only: other invocations act on
\* it through nothing but the cache entries it finds when it starts, which the
\* initial states and the clock vary.
GetAllCardDataAlone ==
  /\ aggs = <<>>
  /\ GetAllCardData

NextAlone ==
  \/ GetAllCardDataAlone
  \/ \E c \in 1..Len(calls), body \in Bodies : ResponseEnd(c, body)
  \/ \E c \in 1..Len(calls) : ResponseUnparsable(c)
  \/ \E c \in 1..Len(calls) : RequestError(c)
  \/ \E c \in 1..Len(calls) : RequestTimeout(c)
  \/ \E d \in TickSteps : Tick(d)

SpecAllFair == InitAll /\ [][NextAlone]_vars /\ \A c \in 1..MaxAllCalls : WF_vars(Settle(c))

-----------------------------------------------------------------------------
\* The profile store and its HTTP handlers (server.js). Every awaited file
\* operation of a handler is one step; the handlers of different requests
\* interleave at these steps.

NumDone == Cardinality({i \in 1..Len(reqs) : reqs[i].pc = "done"})

NewReq(op, id, body) ==
  [op |-> op, id |-> id, body |-> body, pc |-> "start", status |-> 0, resp |-> JUndef,
   fd |-> 0, file |-> "", data |-> JUndef, got |-> JUndef, doneNo |-> 0]

\* res.status(status).json(resp)
Finish(r, status, resp) ==
  [r EXCEPT !.pc = "done", !.status = status, !.resp = resp, !.doneNo = NumDone + 1]

\* handleAsync: an error raised by the handler is answered with 500
InternalError(r) == Finish(r, 500, ErrorBody("Internal server error"))

\* fileStorage.readFile(filename, null): the parsed content, null when there
\* is no such file, SyntaxError when the content does not parse
readFile(path) == IF fs[path] = 0 THEN JNull ELSE Parse(inodes[fs[path]])

\* The first half of fs.writeFile(tempPath, ...): the file is opened for
\* writing, which creates it or truncates it.
TmpFd(file) == IF fs[TmpPath(file)] = 0 THEN Len(inodes) + 1 ELSE fs[TmpPath(file)]

OpenTmp(file) ==
  /\ fs' = [fs EXCEPT ![TmpPath(file)] = TmpFd(file)]
  /\ inodes' = IF fs[TmpPath(file)] = 0 THEN Append(inodes, EmptyText)
               ELSE [inodes EXCEPT ![TmpFd(file)] = EmptyText]

\* PUT /display/profiles/:id up to its first file operation
PutProfile(id, body) ==
  /\ Len(reqs) < MaxReqs
  /\ IF ~ValidProfile(body)
     THEN /\ reqs' = Append(reqs, Finish(NewReq("putProfile", id, body), 400,
                                         ErrorBody("\"name\" is required")))
          /\ UNCHANGED <<fs, inodes>>
     ELSE /\ OpenTmp(ProfilePath(id))
          /\ reqs' = Append(reqs, [NewReq("putProfile", id, body) EXCEPT
                                     !.pc = "write", !.fd = TmpFd(ProfilePath(id)),
                                     !.file = ProfilePath(id),
                                     !.data = MakeProfile(body, id, now)])
  /\ UNCHANGED <<cacheVars, cardVars>>

\* PUT /display/cards/:id up to its first file operation; the card is
\* {...value, id: req.params.id, updatedAt: new Date().toISOString()}
PutCard(id, body) ==
  /\ Len(reqs) < MaxReqs
  /\ IF ~ValidCard(body)
     THEN /\ reqs' = Append(reqs, Finish(NewReq("putCard", id, body), 400,
                                         ErrorBody("\"type\" is required")))
          /\ UNCHANGED <<fs, inodes>>
     ELSE /\ OpenTmp(CardPath(id))
          /\ reqs' = Append(reqs, [NewReq("putCard", id, body) EXCEPT
                                     !.pc = "write", !.fd = TmpFd(CardPath(id)),
                                     !.file = CardPath(id),
                                     !.data = MakeProfile(body, id, now)])
  /\ UNCHANGED <<cacheVars, cardVars>>

\* The second half of fs.writeFile(tempPath, JSON.stringify(data, null, 2)):
\* the text is written to the file that was opened.
WriteTmp(r) ==
  /\ reqs[r].pc = "write"
  /\ inodes' = [inodes EXCEPT ![reqs[r].fd] = Stringify(reqs[r].data)]
  /\ reqs' = [reqs EXCEPT ![r].pc = "rename"]
  /\ UNCHANGED <<fs, cacheVars, cardVars>>

\* res.json(...) of the two PUT handlers
PutResponse(r) == IF r.op = "putActive" THEN WithProfile(r.data, r.got) ELSE r.data

\* fs.rename(tempPath, filePath), and the response when it succeeds. It
\* fails when there is no temporary file (any more).
RenameTmp(r) ==
  /\ reqs[r].pc = "rename"
  /\ LET tmp == TmpPath(reqs[r].file) IN
     IF fs[tmp] = 0
     THEN /\ reqs' = [reqs EXCEPT ![r].pc = "cleanup"]
          /\ UNCHANGED fs
     ELSE /\ fs' = [fs EXCEPT ![reqs[r].file] = fs[tmp], ![tmp] = 0]
          /\ reqs' = [reqs EXCEPT ![r] = Finish(reqs[r], 200, PutResponse(reqs[r]))]
  /\ UNCHANGED <<inodes, cacheVars, cardVars>>

\* The catch block of writeFile: fs.unlink(tempPath), errors ignored, and the
\* error is raised again.
CleanupTmp(r) ==
  /\ reqs[r].pc = "cleanup"
  /\ fs' = [fs EXCEPT ![TmpPath(reqs[r].file)] = 0]
  /\ reqs' = [reqs EXCEPT ![r] = InternalError(reqs[r])]
  /\ UNCHANGED <<inodes, cacheVars, cardVars>>

\* GET /display/profiles/:id
GetProfile(id) ==
  /\ Len(reqs) < MaxReqs
  /\ LET r == NewReq("getProfile", id, JUndef)
         profile == readFile(ProfilePath(id))
     IN reqs' = Append(reqs, IF profile = SyntaxError THEN InternalError(r)
                             ELSE IF ~Truthy(profile)
                                  THEN Finish(r, 404, ErrorBody("Profile not found"))
                                  ELSE Finish(r, 200, profile))
  /\ UNCHANGED <<fs, inodes, cacheVars, cardVars>>

\* DELETE /display/profiles/:id up to the read of the profile
DeleteProfile(id) ==
  /\ Len(reqs) < MaxReqs
  /\ LET r == [NewReq("deleteProfile", id, JUndef) EXCEPT !.file = ProfilePath(id)]
         profile == readFile(ProfilePath(id))
     IN reqs' = Append(reqs, IF profile = SyntaxError THEN InternalError(r)
                             ELSE IF ~Truthy(profile)
                                  THEN Finish(r, 404, ErrorBody("Profile not found"))
                                  ELSE [r EXCEPT !.pc = "readActive"])
  /\ UNCHANGED <<fs, inodes, cacheVars, cardVars>>

\* Variant: the active profile is never recognised.
IsActiveProfile_Never(active, id) == FALSE

\* active && active.profileId === req.params.id
IsActiveProfile(active, id) == Truthy(active) /\ Get(active, "profileId") = JStr(id)

\* DELETE: the read of the active-profile pointer and the check against it
DeleteReadActive(r) ==
  /\ reqs[r].pc = "readActive"
  /\ LET active == readFile(ActivePath) IN
     reqs' = [reqs EXCEPT ![r] =
                IF active = SyntaxError THEN InternalError(reqs[r])
                ELSE IF IsActiveProfile(active, reqs[r].id)
                     THEN Finish(reqs[r], 400, ErrorBody("Cannot delete active profile"))
                     ELSE [reqs[r] EXCEPT !.pc = "unlink"]]
  /\ UNCHANGED <<fs, inodes, cacheVars, cardVars>>

\* DELETE: fileStorage.deleteFile, which ignores a missing file, and the
\* 204 response
DeleteUnlink(r) ==
  /\ reqs[r].pc = "unlink"
  /\ fs' = [fs EXCEPT ![reqs[r].file] = 0]
  /\ reqs' = [reqs EXCEPT ![r] = Finish(reqs[r], 204, JUndef)]
  /\ UNCHANGED <<inodes, cacheVars, cardVars>>

\* PUT /display/activeProfile up to the read of the profile it names
PutActive(body) ==
  /\ Len(reqs) < MaxReqs
  /\ LET r == NewReq("putActive", "", body) IN
     IF ~ValidActive(body)
     THEN reqs' = Append(reqs, Finish(r, 400, ErrorBody("\"profileId\" must be a string")))
     ELSE LET id == body.o["profileId"].s
              profile == readFile(ProfilePath(id))
          IN reqs' = Append(reqs,
                       IF profile = SyntaxError THEN InternalError(r)
                       ELSE IF ~Truthy(profile)
                            THEN Finish(r, 404, ErrorBody("Profile not found"))
                            ELSE [r EXCEPT !.pc = "open", !.id = id, !.file = ActivePath,
                                           !.data = MakeActive(body, now), !.got = profile])
  /\ UNCHANGED <<fs, inodes, cacheVars, cardVars>>

\* PUT /display/activeProfile: writeFile opens the temporary file
ActiveOpen(r) ==
  /\ reqs[r].pc = "open"
  /\ OpenTmp(reqs[r].file)
  /\ reqs' = [reqs EXCEPT ![r].pc = "write", ![r].fd = TmpFd(reqs[r].file)]
  /\ UNCHANGED <<cacheVars, cardVars>>

\* The stored profile of the initial states.
SeedProfile(id) == MakeProfile(ProfileBodyA, id, 0)

\* The store starts empty (ensureDataDir), or with both profiles stored and
\* p1 the active profile, as earlier requests leave it.
InitStore ==
  /\ cache = [k \in Kinds |-> NoEntry]
  /\ cacheWriter = [k \in Kinds |-> 0]
  /\ now = 0
  /\ ticks = 0
  /\ clears = 0
  /\ calls = <<>>
  /\ aggs = <<>>
  /\ reqs = <<>>
  /\ payload = JNull
  /\ applied = "none"
  /\ card = NoResult
  /\ \/ /\ fs = NoFiles
        /\ inodes = <<>>
     \/ /\ fs = [p \in Paths |-> CASE p = ProfilePath("p1") -> 1
                                   [] p = ProfilePath("p2") -> 2
                                   [] p = ActivePath -> 3
                                   [] OTHER -> 0]
        /\ inodes = <<Stringify(SeedProfile("p1")), Stringify(SeedProfile("p2")),
                      Stringify(MakeActive(JObj([profileId |-> JStr("p1")]), 0))>>

NextStore ==
  \/ \E id \in ProfileIds, body \in ProfileBodies : PutProfile(id, body)
  \/ \E id \in ProfileIds : GetProfile(id)
  \/ \E id \in ProfileIds : DeleteProfile(id)
  \/ \E body \in ActiveBodies : PutActive(body)
  \/ \E r \in 1..Len(reqs) : ActiveOpen(r)
  \/ \E r \in 1..Len(reqs) : WriteTmp(r)
  \/ \E r \in 1..Len(reqs) : RenameTmp(r)
  \/ \E r \in 1..Len(reqs) : CleanupTmp(r)
  \/ \E r \in 1..Len(reqs) : DeleteReadActive(r)
  \/ \E r \in 1..Len(reqs) : DeleteUnlink(r)

SpecStore == InitStore /\ [][NextStore]_vars

\* The three PUT handlers alone. The store starts empty, or with p1 stored
\* and active and no other profile.
InitPut ==
  /\ cache = [k \in Kinds |-> NoEntry]
  /\ cacheWriter = [k \in Kinds |-> 0]
  /\ now = 0
  /\ ticks = 0
  /\ clears = 0
  /\ calls = <<>>
  /\ aggs = <<>>
  /\ reqs = <<>>
  /\ payload = JNull
  /\ applied = "none"
  /\ card = NoResult
  /\ \/ /\ fs = NoFiles
        /\ inodes = <<>>
     \/ /\ fs = [p \in Paths |-> CASE p = ProfilePath("p1") -> 1
                                   [] p = ActivePath -> 2
                                   [] OTHER -> 0]
        /\ inodes = <<Stringify(SeedProfile("p1")),
                      Stringify(MakeActive(JObj([profileId |-> JStr("p1")]), 0))>>

NextPut ==
  \/ \E id \in ProfileIds, body \in ProfileBodies : PutProfile(id, body)
  \/ \E id \in CardIds, body \in CardBodies : PutCard(id, body)
  \/ \E body \in ActiveBodies : PutActive(body)
  \/ \E r \in 1..Len(reqs) : ActiveOpen(r)
  \/ \E r \in 1..Len(reqs) : WriteTmp(r)
  \/ \E r \in 1..Len(reqs) : RenameTmp(r)
  \/ \E r \in 1..Len(reqs) : CleanupTmp(r)

SpecPut == InitPut /\ [][NextPut]_vars

-----------------------------------------------------------------------------
\* The transformers applied to raw payloads of every shape.

\* The property names the raw items are built from; a raw item gives some of
\* them a text (the name itself, to tell the properties apart) and some the
\* number 0.
ItemKeys == {"arrival_time", "arrivalTime", "minutes_away", "title", "summary", "text"}

ItemOf(T, Z) == JObj([k \in T \cup Z |-> IF k \in T THEN JStr(k) ELSE JNum(0)])

Items == {ItemOf(T, Z) : T \in SUBSET ItemKeys, Z \in SUBSET ItemKeys}

\* A collection of n items that differ from one another in every property a
\* transformer reads first.
Numbered(n) ==
  JArr([i \in 1..n |-> JObj([route |-> JStr(ToString(i)), title |-> JStr(ToString(i)),
                             text |-> JStr(ToString(i))])])

\* The payloads: no payload, payloads of the wrong type, objects with and
\* without a tasks collection, collections of up to MaxLen items, collections
\* with items that are not objects, and one-item collections of every raw item.
Payloads ==
  {JNull, JNum(5), JStr("abcdefg"), JBool(TRUE), JObj([error |-> JStr("Not found")]),
   JObj([tasks |-> JNum(5)]), JObj([tasks |-> JStr("abcdefg")]), JObj([tasks |-> JNull]),
   JArr(<<JNull>>), JArr(<<JNum(5)>>), JArr(<<JStr("s")>>), JObj([tasks |-> JArr(<<JNull>>)])}
  \cup {Numbered(n) : n \in 0..MaxLen}
  \cup {JObj([tasks |-> Numbered(n)]) : n \in 0..MaxLen}
  \cup {JArr(<<it>>) : it \in Items}

ApplyTransformer(k) ==
  /\ applied = "none"
  /\ applied' = k
  /\ card' = Transform(k, payload, now)
  /\ UNCHANGED <<payload, cacheVars, storeVars>>

TransformTransit == ApplyTransformer("transit")

TransformEvents == ApplyTransformer("events")

TransformTasks == ApplyTransformer("tasks")

InitTransform ==
  /\ cache = [k \in Kinds |-> NoEntry]
  /\ cacheWriter = [k \in Kinds |-> 0]
  /\ now = 0
  /\ ticks = 0
  /\ clears = 0
  /\ calls = <<>>
  /\ aggs = <<>>
  /\ fs = NoFiles
  /\ inodes = <<>>
  /\ reqs = <<>>
  /\ payload \in Payloads
  /\ applied = "none"
  /\ card = NoResult

NextTransform ==
  \/ TransformTransit
  \/ TransformEvents
  \/ TransformTasks

SpecTransform == InitTransform /\ [][NextTransform]_vars

-----------------------------------------------------------------------------
\* Properties of the cache-and-fetch service.

\* b is the first call for its key that started after a clearCache().
FirstAfterClear(b) ==
  /\ calls[b].epoch >= 1
  /\ \A a \in 1..(b - 1) : calls[a].key = calls[b].key => calls[a].epoch < calls[b].epoch

\* C1, as claimed: when fetchWithCache is called twice for the same key, the
\* second call starting after the first has returned and less than the TTL
\* later, exactly one upstream request is issued across the two calls and
\* both return the identical payload.
C1_TwoCallsOneRequest ==
  \A b \in 1..Len(calls) : \A a \in calls[b].before :
    (calls[b].pc = "done" /\ calls[b].startedAt - calls[a].startedAt < cacheTimeout)
      => /\ calls[a].reqs + calls[b].reqs = 1
         /\ calls[a].result = calls[b].result

\* C1, amended: when the first call misses the cache and its upstream request
\* succeeds, and the second call for the same key starts after the first has
\* returned, less than the TTL later, with no clearCache() and no other
\* successful fetch of that key completing in between (the entry the first
\* call wrote is the one the second call finds), exactly one upstream request
\* is issued across the two calls and both return the identical payload.
C1_TwoCallsOneRequestAfterSuccess ==
  \A b \in 1..Len(calls) : \A a \in calls[b].before :
    (/\ calls[a].outcome = "ok"
     /\ calls[b].cachedBy = a
     /\ calls[b].startedAt - calls[a].doneAt < cacheTimeout)
      => /\ calls[a].reqs + calls[b].reqs = 1
         /\ calls[b].pc = "done"
         /\ calls[a].result = calls[b].result

\* A second call was served, TTL-1 milliseconds later, the payload the first
\* call fetched.
C1_Witness ==
  \E b \in 1..Len(calls) : \E a \in calls[b].before :
    /\ calls[a].outcome = "ok"
    /\ calls[b].cachedBy = a
    /\ calls[b].startedAt - calls[a].doneAt = cacheTimeout - 1
    /\ calls[b].outcome = "hit"

\* C5, as claimed: after clearCache() the cache holds no entry for any
\* SourceKind, and the next call for each SourceKind issues a fresh upstream
\* request.
C5_NextCallFetches ==
  /\ [][clears' > clears => \A k \in Kinds : cache'[k] = NoEntry]_vars
  /\ [](\A b \in 1..Len(calls) : FirstAfterClear(b) => calls[b].reqs = 1)

\* C5, amended: after clearCache() the cache holds no entry for any
\* SourceKind, and the next call for each SourceKind issues a fresh upstream
\* request unless a fetch of that key that was in flight at the invalidation
\* has completed successfully since and repopulated the entry; the call is
\* then served that entry, never an entry written before the invalidation.
C5_NextCallFetchesUnlessRepopulated ==
  /\ [][clears' > clears => \A k \in Kinds : cache'[k] = NoEntry]_vars
  /\ [](\A b \in 1..Len(calls) :
          FirstAfterClear(b) =>
            \/ calls[b].reqs = 1
            \/ /\ calls[b].outcome = "hit"
               /\ calls[b].cachedBy # 0
               /\ calls[calls[b].cachedBy].epoch < calls[b].epoch
               /\ calls[calls[b].cachedBy].doneEpoch = calls[b].epoch
               /\ calls[b].result = calls[calls[b].cachedBy].result)

\* A payload was cached, clearCache() ran, and the next call for that key
\* found no entry and issued a request.
C5_Witness ==
  \E b \in 1..Len(calls) :
    /\ FirstAfterClear(b)
    /\ calls[b].reqs = 1
    /\ ~calls[b].cached.present
    /\ \E a \in calls[b].before : calls[a].outcome = "ok" /\ calls[a].doneEpoch < calls[b].epoch

\* C6: a call issues no upstream request when it finds an entry younger than
\* the TTL (it returns that entry's payload at once and leaves the cache as
\* it is) and exactly one request otherwise; the number of requests of a call
\* never changes after it started (no retry).
C6_Step ==
  /\ \A i \in 1..Len(calls') :
       i > Len(calls) =>
         LET e == cache[calls'[i].key] IN
         IF e.present /\ now - e.timestamp < cacheTimeout
         THEN /\ calls'[i].reqs = 0
              /\ calls'[i].pc = "done"
              /\ calls'[i].result = e.data
              /\ cache' = cache
         ELSE /\ calls'[i].reqs = 1
              /\ calls'[i].pc = "await"
  /\ \A i \in 1..Len(calls) : calls'[i].reqs = calls[i].reqs

C6_RequestsPerCall == [][C6_Step]_vars

\* A call found an entry aged exactly the TTL and issued a request, and its
\* upstream attempt failed.
C6_Witness ==
  \E i \in 1..Len(calls) :
    /\ calls[i].cached.present
    /\ calls[i].startedAt - calls[i].cached.timestamp = cacheTimeout
    /\ calls[i].outcome = "failed"
    /\ calls[i].reqs = 1

\* C7: every cache entry is absent or holds the payload of one successful
\* fetch together with the time at which that same fetch completed.
C7_EntryFromOneFetch ==
  \A k \in Kinds :
    cache[k].present =>
      \E c \in 1..Len(calls) :
        /\ calls[c].key = k
        /\ calls[c].outcome = "ok"
        /\ cache[k].data = calls[c].result
        /\ cache[k].timestamp = calls[c].doneAt

\* Two fetches of one key succeeded at different times with different
\* payloads, and the entry is the later one's.
C7_Witness ==
  \E k \in Kinds : \E a, b \in 1..Len(calls) :
    /\ calls[a].key = k /\ calls[b].key = k
    /\ calls[a].outcome = "ok" /\ calls[b].outcome = "ok"
    /\ calls[a].result # calls[b].result
    /\ calls[a].doneAt < calls[b].doneAt
    /\ cache[k] = Entry(calls[b].result, calls[b].doneAt)

\* C11: a fetch that was started before clearCache() and completes
\* successfully after it is not cancelled: its completion writes its payload
\* and its completion time into the entry of its key, whatever the entry held
\* (last writer wins), so the cache can hold, after an invalidation, an entry
\* produced by a request issued before it.
C11_InFlightFetchRepopulates ==
  [][\A c \in 1..Len(calls) :
       (calls[c].pc = "await" /\ calls'[c].outcome = "ok" /\ calls[c].epoch < clears)
         => /\ cache'[calls[c].key] = Entry(calls'[c].result, now)
            /\ \A k \in Kinds \ {calls[c].key} : cache'[k] = cache[k]]_vars

\* After clearCache() has run, the cache holds an entry written by a fetch
\* that was issued before it.
C11_Witness ==
  \E k \in Kinds : \E c \in 1..Len(calls) :
    /\ clears >= 1
    /\ calls[c].key = k
    /\ calls[c].epoch = 0
    /\ calls[c].outcome = "ok"
    /\ calls[c].doneEpoch = 1
    /\ cache[k] = Entry(calls[c].result, calls[c].doneAt)

\* The calls started by this step.
Started == {i \in 1..Len(calls') : i > Len(calls)}

\* The calls whose upstream request succeeds in this step.
Succeeding == {c \in 1..Len(calls) : calls[c].pc = "await" /\ calls'[c].outcome = "ok"}

\* The calls whose upstream attempt fails in this step.
Failing == {c \in 1..Len(calls) : calls[c].pc = "await" /\ calls'[c].outcome = "failed"}

\* C17: fetches of one key are not coalesced: a call that finds no fresh
\* entry while a request for its key is in flight issues a request of its
\* own, so two requests for one key can be in flight at once, and each
\* completion that succeeds writes the entry of the key.
C17_NotCoalesced ==
  [][/\ \A i \in Started :
          ( /\ ~(cache[calls'[i].key].present
                  /\ now - cache[calls'[i].key].timestamp < cacheTimeout)
            /\ \E a \in 1..Len(calls) : calls[a].key = calls'[i].key /\ calls[a].pc = "await" )
            => /\ calls'[i].reqs = 1
               /\ calls'[i].pc = "await"
               /\ \A a \in 1..Len(calls) : calls'[a] = calls[a]
     /\ \A c \in Succeeding :
          cache'[calls[c].key] = [present |-> TRUE, data |-> calls'[c].result, timestamp |-> now]]_vars

\* Two requests for one key were in flight at once, both succeeded with
\* different payloads, and the entry is the one of the later completion.
C17_Witness ==
  \E a, b \in 1..Len(calls) :
    /\ a < b
    /\ calls[a].key = calls[b].key
    /\ a \notin calls[b].before
    /\ calls[a].reqs = 1 /\ calls[b].reqs = 1
    /\ calls[a].outcome = "ok" /\ calls[b].outcome = "ok"
    /\ calls[a].result # calls[b].result
    /\ cacheWriter[calls[a].key] = a
    /\ cache[calls[a].key].data = calls[a].result

\* C18: a call never changes the entry of another key; a call served from a
\* fresh entry, the start of a call, and a failing upstream attempt change no
\* entry; the cache changes only in a step in which a fetch completes
\* successfully (the entry of its key only) or clearCache() runs.
C18_CacheFrame ==
  [][/\ Started # {} => cache' = cache
     /\ Failing # {} => cache' = cache
     /\ \A c \in Succeeding : \A k \in Kinds \ {calls[c].key} : cache'[k] = cache[k]
     /\ cache' # cache => (Succeeding # {} \/ clears' = clears + 1)]_vars

\* The entries of two keys, each as its own fetch wrote it: the fetch of the
\* second key completed later and left the entry of the first as it was.
C18_Witness ==
  \E a, b \in 1..Len(calls) :
    /\ calls[a].key # calls[b].key
    /\ calls[a].outcome = "ok" /\ calls[b].outcome = "ok"
    /\ calls[a].doneAt < calls[b].doneAt
    /\ cache[calls[a].key] = Entry(calls[a].result, calls[a].doneAt)
    /\ cache[calls[b].key] = Entry(calls[b].result, calls[b].doneAt)

\* C21: the entry of a key never regresses: a successful completion never
\* overwrites an entry with the result of a request that was issued earlier
\* than the request that produced the entry. (The calls are numbered in the
\* order in which they were started, which is the order in which their
\* requests were issued.)
C21_NeverRegresses ==
  [][\A c \in Succeeding :
       cacheWriter[calls[c].key] # 0 => cacheWriter[calls[c].key] < c]_vars

\* The payloads of the responses that signal an error.
ErrorPayloads == {r.body : r \in {x \in Responses : x.statusCode >= 400}}

\* C22: a response with an HTTP error status is treated as a failed fetch:
\* its body never is the payload of a cache entry (so it never replaces a
\* good payload) and never is the value a fetchWithCache call returns.
C22_ErrorStatusIsFailure ==
  /\ \A k \in Kinds : cache[k].present => cache[k].data \notin ErrorPayloads
  /\ \A c \in 1..Len(calls) : calls[c].pc = "done" => calls[c].result \notin ErrorPayloads

-----------------------------------------------------------------------------
\* Properties of getAllCardData.

PlaceholderTitle == [transit |-> "CTA Transit", events |-> "Calendar Events", tasks |-> "Habitica Tasks"]

\* The placeholder shape: the fixed title, no items, no lastUpdated.
IsPlaceholder(k, v) ==
  /\ DOMAIN v = {"title", "content", "items"}
  /\ v.title = PlaceholderTitle[k]
  /\ v.items = <<>>

\* A normalized card object.
IsNormalized(v) == {"title", "items"} \subseteq DOMAIN v

\* The fetch of kind KindOrder[j] made by the getAllCardData invocation a.
FetchOf(a, j) == calls[aggs[a].first + j - 1]

\* C2: a fetch whose upstream attempt fails returns the payload of the entry
\* it found, however old, and leaves the cache as it is; when there was no
\* entry it returns null and the getAllCardData field of that kind is the
\* placeholder shape.
C2_FailureFallback ==
  /\ [][\A c \in 1..Len(calls) :
          (calls[c].outcome = "pending" /\ calls'[c].outcome = "failed") => cache' = cache]_vars
  /\ [](\A a \in 1..Len(aggs) : \A j \in 1..3 :
          (aggs[a].pc # "await" /\ FetchOf(a, j).outcome = "failed") =>
            IF FetchOf(a, j).cached.present
            THEN FetchOf(a, j).result = FetchOf(a, j).cached.data
            ELSE /\ FetchOf(a, j).result = JNull
                 /\ aggs[a].pc = "returned"
                 /\ IsPlaceholder(KindOrder[j], aggs[a].result[KindOrder[j]]))

\* C3: getAllCardData returns an object with exactly the fields transit,
\* events and tasks, each a normalized object that is determined by the
\* outcome of its own source alone.
C3_ThreeIndependentFields ==
  \A a \in 1..Len(aggs) :
    aggs[a].pc # "await" =>
      /\ aggs[a].pc = "returned"
      /\ DOMAIN aggs[a].result = Kinds
      /\ \A j \in 1..3 :
           LET v == aggs[a].result[KindOrder[j]]
               w == Transform(KindOrder[j], FetchOf(a, j).result, 0)
           IN /\ IsNormalized(v)
              /\ DOMAIN v = DOMAIN w
              /\ v.title = w.title
              /\ v.items = w.items

\* C4: no getTransitData, getEventsData, getTasksData or getAllCardData call
\* raises to its caller.
C4_NeverRaises ==
  /\ \A c \in 1..Len(calls) : calls[c].pc \in {"await", "done"}
  /\ \A a \in 1..Len(aggs) : aggs[a].pc \in {"await", "returned"}

\* The step starts a getAllCardData invocation whose three fetches are all
\* started by it, each served from a fresh entry or with its request issued.
C15_AllIssued ==
  Len(aggs') > Len(aggs) =>
    /\ Len(calls') = Len(calls) + 3
    /\ aggs'[Len(aggs')].first = Len(calls) + 1
    /\ \A j \in 1..3 :
         LET c == calls'[Len(calls) + j] IN
         /\ c.key = KindOrder[j]
         /\ c.startedAt = now
         /\ (c.outcome = "hit" /\ c.reqs = 0) \/ (c.outcome = "pending" /\ c.reqs = 1)

\* C15: every getAllCardData invocation eventually completes, given that
\* every outstanding upstream request eventually succeeds, fails or times out;
\* it has completed only when its three fetches have settled, and then it
\* has; a fetch that failed or was slow does not make it raise (it raises only
\* over a payload that a fetch did return); and its three fetches are all
\* started together, whatever becomes of each.
C15_AggregateCompletes ==
  /\ \A a \in 1..MaxAggs : (Len(aggs) >= a) ~> (Len(aggs) >= a /\ aggs[a].pc # "await")
  /\ [](\A a \in 1..Len(aggs) :
          aggs[a].pc # "await" <=> \A j \in 1..3 : FetchOf(a, j).pc = "done")
  /\ [](\A a \in 1..Len(aggs) :
          aggs[a].pc = "raised" =>
            \E j \in 1..3 : /\ FetchOf(a, j).result # JNull
                             /\ Transform(KindOrder[j], FetchOf(a, j).result, 0) = Thrown)
  /\ [][C15_AllIssued]_vars

\* An invocation returned although one of its fetches failed and another one
\* got its response only after the request timeout had passed.
C15_Witness ==
  \E a \in 1..Len(aggs) : \E i, j \in 1..3 :
    /\ aggs[a].pc = "returned"
    /\ FetchOf(a, i).outcome = "failed"
    /\ ~FetchOf(a, i).cached.present
    /\ FetchOf(a, j).outcome = "ok"
    /\ FetchOf(a, j).doneAt - FetchOf(a, j).startedAt >= requestTimeout

-----------------------------------------------------------------------------
\* Properties of the profile store.

\* The values handed to fileStorage.writeFile for a profile file so far,
\* the stored profile of the initial state included.
WrittenTo(id) ==
  {SeedProfile(id)} \cup
  {reqs[w].data : w \in {i \in 1..Len(reqs) : reqs[i].op = "putProfile"
                                               /\ reqs[i].id = id
                                               /\ reqs[i].data # JUndef}}

\* C8: a read of a profile file never observes a partially written or mixed
\* file, overlapping writers included: every answered GET of a profile
\* reports that there is no profile, or returns in full one value that was
\* handed to a write of that file.
C8_ReadSeesOneWholeValue ==
  \A g \in 1..Len(reqs) :
    (reqs[g].op = "getProfile" /\ reqs[g].pc = "done")
      => \/ reqs[g].status = 404
         \/ reqs[g].status = 200 /\ reqs[g].resp \in WrittenTo(reqs[g].id)

\* The requests added by this step.
Arrived == {i \in 1..Len(reqs') : i > Len(reqs)}

\* The active-profile pointer as stored, when it is stored and whole.
PointerStored == fs[ActivePath] # 0 /\ "text" \in DOMAIN inodes[fs[ActivePath]]

PointerNames(id) ==
  PointerStored /\ inodes[fs[ActivePath]].text.o["profileId"] = JStr(id)

PointerNamesOther(id) ==
  fs[ActivePath] = 0 \/ (PointerStored /\ inodes[fs[ActivePath]].text.o["profileId"] # JStr(id))

ProfileStored(id) ==
  fs[ProfilePath(id)] # 0 /\ "text" \in DOMAIN inodes[fs[ProfilePath(id)]]

C9_Step ==
  /\ \A r \in 1..Len(reqs) :
       /\ (reqs[r].pc = "readActive" /\ reqs'[r] # reqs[r] /\ PointerNames(reqs[r].id))
            => /\ reqs'[r].pc = "done" /\ reqs'[r].status = 400
               /\ fs' = fs /\ inodes' = inodes
       /\ (reqs[r].pc = "readActive" /\ reqs'[r] # reqs[r] /\ PointerNamesOther(reqs[r].id))
            => reqs'[r].pc = "unlink" /\ fs' = fs /\ inodes' = inodes
       /\ (reqs[r].pc = "unlink" /\ reqs'[r] # reqs[r])
            => /\ reqs'[r].pc = "done" /\ reqs'[r].status = 204
               /\ fs' = [fs EXCEPT ![ProfilePath(reqs[r].id)] = 0]
  /\ \A i \in Arrived :
       /\ (reqs'[i].op = "deleteProfile" /\ ProfileStored(reqs'[i].id))
            => reqs'[i].pc = "readActive"
       /\ (reqs'[i].op = "getProfile" /\ fs[ProfilePath(reqs'[i].id)] = 0)
            => reqs'[i].pc = "done" /\ reqs'[i].status = 404

\* C9: a DELETE of the profile the active-profile pointer names is rejected
\* with 400 and leaves every file as it was; a DELETE of a stored profile the
\* pointer does not name removes exactly that profile's file and answers 204;
\* a GET of a profile that is not stored answers 404.
C9_DeleteActiveRejected == [][C9_Step]_vars

\* A rejected DELETE of the active profile, a DELETE of the other profile
\* answered 204, and the GET of the deleted profile after it answered 404.
C9_Witness ==
  \E a, b, g \in 1..Len(reqs) :
    /\ reqs[a].op = "deleteProfile" /\ reqs[a].status = 400
    /\ fs[ProfilePath(reqs[a].id)] # 0
    /\ reqs[b].op = "deleteProfile" /\ reqs[b].status = 204
    /\ reqs[g].op = "getProfile" /\ reqs[g].id = reqs[b].id /\ reqs[g].status = 404
    /\ reqs[b].doneNo < reqs[g].doneNo

\* The requests that write or delete the file of profile id: a PUT that
\* passed validation, or a DELETE.
Writers(id) ==
  {w \in 1..Len(reqs) : /\ reqs[w].id = id
                        /\ \/ reqs[w].op = "deleteProfile"
                           \/ reqs[w].op = "putProfile" /\ ValidProfile(reqs[w].body)}

C10_Step ==
  \A g \in Arrived :
    (reqs'[g].op = "getProfile") =>
      \A p \in Writers(reqs'[g].id) :
        ( /\ reqs[p].op = "putProfile" /\ reqs[p].pc = "done" /\ reqs[p].status = 200
          /\ \A w \in Writers(reqs'[g].id) :
               reqs[w].pc = "done" /\ reqs[w].doneNo <= reqs[p].doneNo )
          => /\ reqs'[g].status = 200
             /\ reqs'[g].resp = reqs[p].resp
             /\ Get(reqs'[g].resp, "id") = JStr(reqs[p].id)
             /\ Get(reqs'[g].resp, "updatedAt") = IsoTime(now)

\* C10: a GET of a profile that arrives after a PUT of it was answered 200,
\* when every other PUT or DELETE of that profile was answered before that
\* PUT, is answered 200 with the very object the PUT returned, whose id is the
\* one of the path and whose updatedAt is the time of the PUT.
C10_PutThenGet == [][C10_Step]_vars

\* A GET answered with the object of the PUT before it, where the PUT's body
\* carried another id and replaced a profile stored before.
C10_Witness ==
  \E p, g \in 1..Len(reqs) :
    /\ reqs[p].op = "putProfile" /\ reqs[p].status = 200
    /\ reqs[p].body = ProfileBodyB
    /\ reqs[g].op = "getProfile" /\ reqs[g].id = reqs[p].id /\ reqs[g].status = 200
    /\ reqs[g].doneNo = reqs[p].doneNo + 1
    /\ reqs[g].resp = reqs[p].resp
    /\ reqs[g].resp # SeedProfile(reqs[g].id)
    /\ Get(reqs[g].resp, "id") = JStr(reqs[p].id)
    /\ Len(inodes) > 3

\* Two writeFile calls overlapped: the second opened the temporary file
\* while the first had it open and had not renamed it yet.
Overlapped(a, b) ==
  /\ a # b
  /\ reqs[a].op = "putProfile" /\ reqs[b].op = "putProfile"
  /\ reqs[a].id = reqs[b].id
  /\ reqs[a].fd # 0 /\ reqs[a].fd = reqs[b].fd

\* The writers of profile id whose rename succeeded.
Renamed(id) ==
  {w \in 1..Len(reqs) : reqs[w].op = "putProfile" /\ reqs[w].id = id /\ reqs[w].status = 200}

\* C16: when two writeFile calls for one key overlapped and every write of
\* the key has ended (nothing deleted it), the file holds the complete value
\* of the writer whose rename ran last.
C16_LastRenameWins ==
  \A a, b \in 1..Len(reqs) :
    ( /\ Overlapped(a, b)
      /\ \A w \in 1..Len(reqs) :
           reqs[w].id = reqs[a].id => reqs[w].pc = "done" /\ reqs[w].op # "deleteProfile" )
      => \E w \in Renamed(reqs[a].id) :
           /\ \A v \in Renamed(reqs[a].id) : reqs[v].doneNo <= reqs[w].doneNo
           /\ fs[ProfilePath(reqs[a].id)] # 0
           /\ inodes[fs[ProfilePath(reqs[a].id)]] = Stringify(reqs[w].data)

\* The body of a write request lacks what the request requires: the name of
\* a profile, the type of a card, a text as the profileId of the pointer.
FailsValidation(r) ==
  \/ r.op = "putProfile" /\ "name" \notin DOMAIN r.body.o
  \/ r.op = "putCard" /\ "type" \notin DOMAIN r.body.o
  \/ r.op = "putActive" /\ r.body.o["profileId"].t # "str"

\* PUT /display/activeProfile with a valid body that names a profile of which
\* there is no file.
NamesMissingProfile(r) ==
  /\ r.op = "putActive"
  /\ r.body.o["profileId"].t = "str"
  /\ fs[ProfilePath(r.body.o["profileId"].s)] = 0

C19_Step ==
  /\ \A i \in Arrived :
       /\ FailsValidation(reqs'[i])
            => /\ reqs'[i].pc = "done" /\ reqs'[i].status = 400
               /\ DOMAIN reqs'[i].resp.o = {"error"}
               /\ fs' = fs /\ inodes' = inodes
       /\ NamesMissingProfile(reqs'[i])
            => /\ reqs'[i].pc = "done" /\ reqs'[i].status = 404
               /\ fs' = fs /\ inodes' = inodes
  /\ \A r \in 1..Len(reqs) : reqs[r].pc = "done" => reqs'[r] = reqs[r]

\* C19: a PUT of a profile, a card or the active-profile pointer whose body
\* fails validation is answered 400 with an error message in the very step
\* in which it arrives, and PUT /display/activeProfile naming a profile
\* without a file is answered 404 likewise; that step leaves every file and
\* every file content as it was, and an answered request takes no further
\* step.
C19_RejectedWriteChangesNothing == [][C19_Step]_vars

\* A card without type and a profile without name were answered 400, a
\* pointer to a profile that is not stored was answered 404, and the stored
\* pointer and profile are the ones the store started with.
C19_Witness ==
  \E a, b, c \in 1..Len(reqs) :
    /\ reqs[a].op = "putCard" /\ reqs[a].status = 400
    /\ reqs[b].op = "putProfile" /\ reqs[b].status = 400
    /\ reqs[c].op = "putActive" /\ reqs[c].status = 404
    /\ fs[ActivePath] # 0
    /\ inodes[fs[ActivePath]] = Stringify(MakeActive(JObj([profileId |-> JStr("p1")]), 0))
    /\ \A p \in Paths : fs[p] # 0 <=> p \in {ActivePath, ProfilePath("p1")}

\* C20: in every state of the store the active-profile pointer, when it is
\* stored, names a profile whose file exists.
C20_PointerReferencesProfile ==
  PointerStored =>
    \E id \in ProfileIds :
      /\ inodes[fs[ActivePath]].text.o["profileId"] = JStr(id)
      /\ fs[ProfilePath(id)] # 0

-----------------------------------------------------------------------------
\* Properties of the transformers.

\* The item collection of a payload: the payload itself when it is an array,
\* for the tasks transformer also the array under its tasks property; no
\* collection otherwise.
HasCollection(k, data) ==
  \/ IsArray(data)
  \/ k = "tasks" /\ IsArray(Get(data, "tasks"))

InputCollection(k, data) ==
  IF IsArray(data) THEN data.a
  ELSE IF k = "tasks" /\ IsArray(Get(data, "tasks")) THEN Get(data, "tasks").a
  ELSE <<>>

\* C12: no transformer raises, whatever the payload: it returns a normalized
\* object, with empty items when the payload has no item collection.
C12_TransformersNeverRaise ==
  applied # "none" =>
    /\ card # Thrown
    /\ IsNormalized(card)
    /\ ~HasCollection(applied, payload) => card.items = <<>>

\* C13: the items a transformer returns are as many as the input collection
\* has, at most 5, and the i-th item is the one the transformer derives from
\* the i-th input element alone.
C13_TruncatedInOrder ==
  (applied # "none" /\ card # Thrown) =>
    LET src == InputCollection(applied, payload) IN
    /\ Len(card.items) = Min(5, Len(src))
    /\ Len(card.items) <= 5
    /\ \A i \in 1..Len(card.items) :
         /\ card.items[i] = Transform(applied, JArr(<<src[i]>>), now).items[1]
         /\ \A j \in 1..Len(card.items) : (i # j /\ src[i] # src[j]) => card.items[i] # card.items[j]

\* A collection of more than 5 different items was cut to its first 5.
C13_Witness ==
  /\ applied = "tasks"
  /\ card # Thrown
  /\ Len(InputCollection(applied, payload)) = MaxLen
  /\ Len(card.items) = 5
  /\ card.items[5].title = JStr("5")

\* The candidate keys of each normalized field, in the order of preference,
\* and the default literal of the field.
PreferenceOrder ==
  [transit |-> [route |-> <<"route">>, destination |-> <<"destination">>,
                arrivalTime |-> <<"arrival_time", "arrivalTime">>,
                minutes |-> <<"minutes_away", "minutesAway">>],
   events |-> [title |-> <<"title", "summary">>,
               time |-> <<"start_time", "startTime", "start">>,
               description |-> <<"description">>, location |-> <<"location">>],
   tasks |-> [title |-> <<"text", "title">>, type |-> <<"type">>, priority |-> <<"priority">>,
              completed |-> <<"completed">>, difficulty |-> <<"difficulty">>]]

DefaultLiteral ==
  [transit |-> [route |-> JStr("Unknown Route"), destination |-> JStr("Unknown Destination"),
                arrivalTime |-> JStr("TBD"), minutes |-> JStr("N/A")],
   events |-> [title |-> JStr("Untitled Event"), time |-> JStr("TBD"),
               description |-> JStr(""), location |-> JStr("")],
   tasks |-> [title |-> JStr("Untitled Task"), type |-> JStr("todo"), priority |-> JStr("normal"),
              completed |-> JBool(FALSE), difficulty |-> JNum(1)]]

\* The value of the first of the keys, from the j-th on, that the item has.
RECURSIVE FirstPresent(_, _, _, _)
FirstPresent(item, keys, j, default) ==
  IF j > Len(keys) THEN default
  ELSE IF item.t = "object" /\ keys[j] \in DOMAIN item.o THEN item.o[keys[j]]
  ELSE FirstPresent(item, keys, j + 1, default)

\* C14: every field of every returned item is the value of the first
\* candidate key, in the order of preference, that the raw item has, whatever
\* that value is, and the default literal only when the raw item has none of
\* the candidate keys.
C14_FirstPresentKeyWins ==
  (applied # "none" /\ card # Thrown) =>
    \A i \in 1..Len(card.items) : \A f \in DOMAIN PreferenceOrder[applied] :
      card.items[i][f] = FirstPresent(InputCollection(applied, payload)[i],
                                      PreferenceOrder[applied][f], 1,
                                      DefaultLiteral[applied][f])

====
